---- MODULE Spec2Model ----
(***************************************************************************)
(* ACME-IC backend: the certificate manager (cert_manager.rs), the signing *)
(* identity and certificate builder (key.rs) and the request handler       *)
(* (handler/mod.rs, handler/types.rs).                                     *)
(*                                                                         *)
(* The environment invokes the public operations of the backend.  Every    *)
(* invocation is a call c; the backend is single threaded, calls run one   *)
(* after the other and a call that panics ends there, with what it wrote   *)
(* before the panic still written (the rollback a canister trap adds on    *)
(* top of the code is not modelled).  The only code that runs later is a   *)
(* future handed to ic_cdk::spawn (SpecSigner).                            *)
(*                                                                         *)
(* Spec:        cert_manager.rs and the synchronous part of key.rs         *)
(* SpecHandler: handler/mod.rs and handler/types.rs                        *)
(* SpecSigner:  the Signing Authority exchange of key.rs                   *)
(***************************************************************************)
EXTENDS Integers, Sequences, FiniteSets, TLC

\* Number of invocations the environment makes.
MaxCalls == 3

Calls == 1..MaxCalls

(***************************************************************************)
(* Names.  An x509 Name is a sequence of relative distinguished names; an  *)
(* RDN is a number here.  ROOT_NAME "CN=IC ENCRYPT" parses (Name::from_str)*)
(* to one RDN, number 1.                                                   *)
(***************************************************************************)
ROOT_NAME == <<1>>
ROOT_SERIAL_NUMBER == 0

Names == {<<>>, ROOT_NAME, <<2>>}
\* Serial numbers the environment passes to AcmeKey::new directly.
MaxSerialArg == 1
Keys == [domain : Names, serial_number : 0..MaxSerialArg]

VARIABLES
  counter,   \* CertificateManager.serial_number_registry (StableCell<u64>)
  issued,    \* the serials _inc_serial_number has returned, in call order
  pc,        \* pc[c]: where call c is
  op,        \* op[c]: the operation call c invokes
  key,       \* key[c]: the AcmeKey of call c
  setRes,    \* setRes[c]: what StableCell::set returned to call c
  built,     \* built[c]: call c has started to build its certificate
  path,      \* path[c]: the bytes AcmeKey::id returned to call c
  prof,      \* prof[c]: the Profile Certificate::profile returned to call c
  req,       \* req[c]: the raw request handed to Handler::accept
  skip,      \* skip[c]: skip_jwk_verification() of the Handler of call c
  handled,   \* the calls whose request reached Handler::handle
  handlerWrites, \* number of times Handler::handle has run on persisted state
  resp,      \* resp[c]: the response Handler::accept returned
  vin,       \* vin[c]: the key, message and signature given to verify
  vret,      \* vret[c]: what Es256kPublicKey::verify returned
  fut,       \* fut[c]: the future call c handed to ic_cdk::spawn
  cell,      \* cell[c]: content of the Rc<RefCell<..Response>> of call c
  rc,        \* rc[c]: strong count of that Rc
  fault,     \* fault[c]: the Signing Authority failed call c's request
  sres,      \* sres[c]: the Result verifying_key / try_sign returned
  nowAt,     \* nowAt[c]: what ic_cdk::api::time() returned to call c
  validity   \* validity[c]: the Validity generate_validity_info returned

issueVars == <<counter, issued, setRes, built>>
keyVars == <<key, path, prof>>
handlerVars == <<req, skip, handled, handlerWrites, resp, vin, vret>>
signerVars == <<fut, cell, rc, fault, sres>>
validityVars == <<nowAt, validity>>
vars == <<pc, op, issueVars, keyVars, handlerVars, signerVars, validityVars>>

NoKey == [domain |-> <<>>, serial_number |-> 0]
NoProfile == [kind |-> "none", issuer |-> <<>>]
NoRequest == [method |-> "none", body_ok |-> FALSE, jws_ok |-> FALSE]
NoResponse == [kind |-> "none", status |-> 0]
NoVerify == [key |-> 0, msg |-> 0, sig |-> <<>>]
NoTime == [d |-> 0, s |-> 0, n |-> 0]
NoValidity == [not_before |-> NoTime, not_after |-> NoTime]

Ended(c) == pc[c] \in {"returned", "panicked"}
\* Calls are made in order, and one at a time: no operation here suspends.
CanStart(c) ==
  /\ pc[c] = "idle"
  /\ \A d \in Calls : d < c => Ended(d)

Init ==
  /\ counter = 0
  /\ issued = <<>>
  /\ pc = [c \in Calls |-> "idle"]
  /\ op = [c \in Calls |-> "none"]
  /\ key = [c \in Calls |-> NoKey]
  /\ setRes = [c \in Calls |-> "none"]
  /\ built = [c \in Calls |-> FALSE]
  /\ path = [c \in Calls |-> <<>>]
  /\ prof = [c \in Calls |-> NoProfile]
  /\ req = [c \in Calls |-> NoRequest]
  /\ skip = [c \in Calls |-> FALSE]
  /\ handled = {}
  /\ handlerWrites = 0
  /\ resp = [c \in Calls |-> NoResponse]
  /\ vin = [c \in Calls |-> NoVerify]
  /\ vret = [c \in Calls |-> "none"]
  /\ fut = [c \in Calls |-> "none"]
  /\ cell = [c \in Calls |-> "none"]
  /\ rc = [c \in Calls |-> 0]
  /\ fault = [c \in Calls |-> FALSE]
  /\ sres = [c \in Calls |-> "none"]
  /\ nowAt = [c \in Calls |-> NoTime]
  /\ validity = [c \in Calls |-> NoValidity]

(***************************************************************************)
(* key.rs: AcmeKey                                                         *)
(***************************************************************************)
AcmeKey_new(domain, serial_number) ==
  [domain |-> domain, serial_number |-> serial_number]

\* DER of a Name: the SEQUENCE header (number 0 here), then its RDNs.
DerEncode(name) == <<0>> \o name

\* der::Encode::encode_to_slice: encodes into the given slice, and fails
\* (Overlength) when the slice is shorter than the encoding.
encode_to_slice(name, buf) ==
  IF Len(DerEncode(name)) > Len(buf)
    THEN [ok |-> FALSE, bytes |-> <<>>]
    ELSE [ok |-> TRUE, bytes |-> DerEncode(name)]

\* Storable::to_bytes_checked of a u64: its 8 bytes, one number here.
to_bytes_checked(n) == <<n>>

\* Keccak::update absorbs the bytes; Keccak::finalize writes as many digest
\* bytes as the output slice holds.  The digest of an input is the input
\* itself here (no collisions).
update(hasher, bytes) == hasher \o bytes
finalize(hasher, out) == IF Len(out) = 0 THEN <<>> ELSE <<hasher>>

\* AcmeKey::id.  buff is Vec::new(), so the slice handed to encode_to_slice
\* and to finalize has length 0.
id(k) ==
  LET buff == <<>>
      enc == encode_to_slice(k.domain, buff)
      h1 == update(<<>>, buff)
      h2 == update(h1, to_bytes_checked(k.serial_number))
      cleared == <<>>
  IN  IF enc.ok
        THEN [panic |-> FALSE, path |-> finalize(h2, cleared)]
        ELSE [panic |-> TRUE, path |-> <<>>]

is_empty(name) == Len(name) = 0
is_root(k) == is_empty(k.domain)

(***************************************************************************)
(* key.rs: Certificate                                                     *)
(***************************************************************************)
root == AcmeKey_new(ROOT_NAME, ROOT_SERIAL_NUMBER)
root_name == ROOT_NAME

profile(k) ==
  IF is_root(k)
    THEN [kind |-> "Root", issuer |-> <<>>]
    ELSE [kind |-> "Leaf", issuer |-> root_name]

(***************************************************************************)
(* cert_manager.rs: CertificateManager                                     *)
(***************************************************************************)
add1_wrapped(current) == (current + 1) % 2
\* current.add(1), on a u64
add1(current) == current + 1

inc_serial_number_unchecked(current, setOk) ==
  [ok |-> TRUE,
   stored |-> IF setOk THEN add1(current) ELSE current,
   ret |-> current]
inc_serial_number_unwritten(current, setOk) ==
  [ok |-> setOk, stored |-> current, ret |-> current]
\* _inc_serial_number: setOk is whether StableCell::set succeeds; unwrap
\* panics when it does not, and the cell keeps its value.
inc_serial_number(current, setOk) ==
  [ok |-> setOk,
   stored |-> IF setOk THEN add1(current) ELSE current,
   ret |-> current]

\* generate_cert, line 22: the serial number is taken.
generate_cert(c, domain) ==
  /\ CanStart(c)
  /\ \E setOk \in BOOLEAN :
       LET r == inc_serial_number(counter, setOk) IN
       /\ counter' = r.stored
       /\ setRes' = [setRes EXCEPT ![c] = IF setOk THEN "ok" ELSE "failed"]
       /\ op' = [op EXCEPT ![c] = "generate_cert"]
       /\ IF r.ok
            THEN /\ issued' = Append(issued, r.ret)
                 /\ key' = [key EXCEPT ![c] = AcmeKey_new(domain, r.ret)]
                 /\ pc' = [pc EXCEPT ![c] = "gc_build"]
            ELSE /\ pc' = [pc EXCEPT ![c] = "panicked"]
                 /\ UNCHANGED <<issued, key>>
  /\ UNCHANGED <<built, path, prof, handlerVars, signerVars,
                 validityVars>>

\* generate_cert, lines 24-25: Certificate::new(key).build(), which is
\* build_leaf.  Its first statement is key.verifying_key(), whose first
\* statement builds the request with derivation_path: vec![self.id()].
build_leaf(c) ==
  /\ pc[c] = "gc_build"
  /\ built' = [built EXCEPT ![c] = TRUE]
  /\ LET r == id(key[c]) IN
       /\ path' = [path EXCEPT ![c] = r.path]
       /\ pc' = [pc EXCEPT ![c] = IF r.panic THEN "panicked" ELSE "spawn"]
  /\ UNCHANGED <<counter, issued, op, key, setRes, prof, handlerVars, signerVars,
                 validityVars>>

\* A caller invokes AcmeKey::id on a key.
CallId(c, k) ==
  /\ CanStart(c)
  /\ op' = [op EXCEPT ![c] = "id"]
  /\ key' = [key EXCEPT ![c] = k]
  /\ LET r == id(k) IN
       /\ path' = [path EXCEPT ![c] = r.path]
       /\ pc' = [pc EXCEPT ![c] = IF r.panic THEN "panicked" ELSE "returned"]
  /\ UNCHANGED <<issueVars, prof, handlerVars, signerVars,
                 validityVars>>

\* A caller invokes Certificate::profile on a certificate with key k.
CallProfile(c, k) ==
  /\ CanStart(c)
  /\ op' = [op EXCEPT ![c] = "profile"]
  /\ key' = [key EXCEPT ![c] = k]
  /\ prof' = [prof EXCEPT ![c] = profile(k)]
  /\ pc' = [pc EXCEPT ![c] = "returned"]
  /\ UNCHANGED <<issueVars, path, handlerVars, signerVars,
                 validityVars>>

(***************************************************************************)
(* handler/mod.rs: Handler                                                 *)
(*                                                                         *)
(* A raw request is its method, whether its body deserializes to the       *)
(* handler's RequestPayload, and whether its signed envelope (signature    *)
(* and nonce) is one the JWS Authenticator accepts.                        *)
(***************************************************************************)
\* Number of requests and of verify calls the environment makes.
MaxRequests == 2
Requesters == 1..MaxRequests

BAD_REQUEST == 400

Methods == {"GET", "POST", "PUT"}
Requests == [method : Methods, body_ok : BOOLEAN, jws_ok : BOOLEAN]
\* What an implementor's Handler::handle may return: a HandleOutcome with a
\* status code, or a GenericError with one.
HandleResults ==
  {[ok |-> TRUE, status |-> 200], [ok |-> FALSE, status |-> 403]}

\* Method::from_str
from_str(str) == IF str \in {"GET", "POST"} THEN "Ok" ELSE "Err"

validate_raw_request_any_method(r) ==
  IF r.body_ok THEN [ok |-> TRUE, status |-> 0]
               ELSE [ok |-> FALSE, status |-> BAD_REQUEST]
\* Handler::validate_raw_request: the method, then (TODO verify jwk: nothing)
\* the body.
validate_raw_request(r) ==
  IF from_str(r.method) = "Err"
    THEN [ok |-> FALSE, status |-> BAD_REQUEST]
    ELSE IF r.body_ok
      THEN [ok |-> TRUE, status |-> 0]
      ELSE [ok |-> FALSE, status |-> BAD_REQUEST]

\* Handler::build_error_resp is todo!(): it panics.
build_error_resp(err) == [kind |-> "panic", status |-> 0]
build_success_resp(data) == [kind |-> "success", status |-> data.status]
collapse_resp(res) ==
  IF res.ok THEN build_success_resp(res) ELSE build_error_resp(res)

\* Handler::accept of a handler whose skip_jwk_verification() is s, on
\* request r; h is what handle returns if it is called.
accept(c, r, s, h) ==
  /\ CanStart(c)
  /\ op' = [op EXCEPT ![c] = "accept"]
  /\ req' = [req EXCEPT ![c] = r]
  /\ skip' = [skip EXCEPT ![c] = s]
  /\ LET v == validate_raw_request(r)
         out == IF v.ok THEN collapse_resp(h) ELSE build_error_resp(v)
     IN  /\ handled' = IF v.ok THEN handled \cup {c} ELSE handled
         /\ handlerWrites' = IF v.ok THEN handlerWrites + 1 ELSE handlerWrites
         /\ resp' = [resp EXCEPT ![c] = out]
         /\ pc' = [pc EXCEPT ![c] =
                     IF out.kind = "panic" THEN "panicked" ELSE "returned"]
  /\ UNCHANGED <<issueVars, keyVars, vin, vret, signerVars,
                 validityVars>>

(***************************************************************************)
(* handler/types.rs: Es256kPublicKey                                       *)
(*                                                                         *)
(* A signature is a byte string; the fixed-size encoding r || s has two    *)
(* bytes here (64 in k256), one per scalar.  Key k's signature of message  *)
(* m is <<k, m>>.                                                          *)
(***************************************************************************)
VerifyKeys == 1..2
Messages == 1..2
SigBytes == 0..2
Signatures == {<<a>> : a \in SigBytes} \cup (SigBytes \X SigBytes)

SignatureOf(k, m) == <<k, m>>

\* k256::ecdsa::Signature::try_from(&[u8]): the length must be that of
\* r || s and neither scalar may be zero.
Signature_try_from(sig) ==
  Len(sig) = Len(SignatureOf(1, 1)) /\ \A i \in DOMAIN sig : sig[i] # 0

\* Es256kPublicKey::verify: expect() panics on a malformed signature.
verify(k, m, sig) ==
  IF ~Signature_try_from(sig) THEN "panic"
  ELSE IF sig = SignatureOf(k, m) THEN "true" ELSE "false"

CallVerify(c, k, m, sig) ==
  /\ CanStart(c)
  /\ op' = [op EXCEPT ![c] = "verify"]
  /\ vin' = [vin EXCEPT ![c] = [key |-> k, msg |-> m, sig |-> sig]]
  /\ LET r == verify(k, m, sig) IN
       /\ vret' = [vret EXCEPT ![c] = r]
       /\ pc' = [pc EXCEPT ![c] = IF r = "panic" THEN "panicked" ELSE "returned"]
  /\ UNCHANGED <<issueVars, keyVars, req, skip, handled, handlerWrites, resp,
                 signerVars,
                 validityVars>>

(***************************************************************************)
(* key.rs: the exchange with the Signing Authority in verifying_key and    *)
(* try_sign, from the point where the request argument has been built.     *)
(* ic_cdk::spawn polls the future once; an inter-canister call is either   *)
(* refused at once or pending until the current call has ended, and its    *)
(* reply resumes the future later.                                         *)
(***************************************************************************)
Replies == {"good", "malformed", "unavailable"}

\* No call is in the middle of its synchronous code.
Quiet == \A d \in Calls : pc[d] \in {"idle", "returned", "panicked"}

\* verifying_key, lines 133-134 / try_sign, lines 174-175: the cell holds
\* the default response and has two owners, the caller and the future.
SignerEnter(c, which) ==
  /\ CanStart(c)
  /\ op' = [op EXCEPT ![c] = which]
  /\ cell' = [cell EXCEPT ![c] = "default"]
  /\ rc' = [rc EXCEPT ![c] = 2]
  /\ fut' = [fut EXCEPT ![c] = "created"]
  /\ pc' = [pc EXCEPT ![c] = "spawn"]
  /\ UNCHANGED <<issueVars, keyVars, handlerVars, fault, sres,
                 validityVars>>

verifying_key(c) == SignerEnter(c, "verifying_key")
try_sign(c) == SignerEnter(c, "try_sign")

\* ic_cdk::spawn(fut), lines 142 / 183: the first poll.  A call the system
\* refuses resolves to Err at once and .await.unwrap() panics.
spawn(c) ==
  /\ pc[c] = "spawn"
  /\ \E refused \in BOOLEAN :
       IF refused
         THEN /\ fut' = [fut EXCEPT ![c] = "failed"]
              /\ fault' = [fault EXCEPT ![c] = TRUE]
              /\ pc' = [pc EXCEPT ![c] = "panicked"]
         ELSE /\ fut' = [fut EXCEPT ![c] = "pending"]
              /\ pc' = [pc EXCEPT ![c] = "take"]
              /\ UNCHANGED fault
  /\ UNCHANGED <<op, issueVars, keyVars, handlerVars, cell, rc, sres,
                 validityVars>>

\* Rc::into_inner(..).unwrap(), lines 144 / 185: Some only for the last
\* owner.  Then from_sec1_bytes(..).unwrap() / Signature::try_from(..).unwrap().
take(c) ==
  /\ pc[c] = "take"
  /\ rc' = [rc EXCEPT ![c] = rc[c] - 1]
  /\ IF rc[c] = 1 /\ cell[c] = "good"
       THEN /\ sres' = [sres EXCEPT ![c] = "Ok"]
            /\ pc' = [pc EXCEPT ![c] = "returned"]
       ELSE /\ pc' = [pc EXCEPT ![c] = "panicked"]
            /\ UNCHANGED sres
  /\ UNCHANGED <<op, issueVars, keyVars, handlerVars, fut, cell, fault,
                 validityVars>>

\* The reply resumes the future, lines 137-139 / 178-180: unwrap panics on
\* Err, otherwise the response is stored in the cell and the future, with
\* its owner of the cell, is dropped.
resume(c, reply) ==
  /\ Quiet
  /\ fut[c] = "pending"
  /\ IF reply = "unavailable"
       THEN /\ fut' = [fut EXCEPT ![c] = "failed"]
            /\ fault' = [fault EXCEPT ![c] = TRUE]
            /\ UNCHANGED <<cell, rc>>
       ELSE /\ fut' = [fut EXCEPT ![c] = "done"]
            /\ cell' = [cell EXCEPT ![c] = reply]
            /\ rc' = [rc EXCEPT ![c] = rc[c] - 1]
            /\ fault' = [fault EXCEPT ![c] = (reply = "malformed")]
  /\ UNCHANGED <<pc, op, issueVars, keyVars, handlerVars, sres,
                 validityVars>>

(***************************************************************************)
(* key.rs: Certificate::generate_validity_info                             *)
(*                                                                         *)
(* A time or duration is a whole number of nanoseconds, written as days d, *)
(* seconds of the day s and nanoseconds of the second n (a Duration keeps  *)
(* seconds and nanoseconds apart in the same way).                         *)
(***************************************************************************)
SecsPerDay == 24 * 3600
NanosPerSec == 1000 * 1000 * 1000

\* 31536000000000000 ns = 365 days
ONE_YEAR_VALIDITY_NANOS == [d |-> 365, s |-> 0, n |-> 0]
\* u64::MAX ns = 18446744073 s + 709551615 ns
U64_MAX == [d |-> 213503, s |-> 84873, n |-> 709551615]
\* der's MAX_UNIX_DURATION, 9999-12-31T23:59:59Z = 253402300799 s
MAX_UNIX_DURATION == [d |-> 2932896, s |-> 86399, n |-> 0]

\* Values of the clock: the epoch, a present-day time and the last days
\* of the u64 range, on and off a whole second.
Nows == [d : {0, 20397, U64_MAX.d}, s : {0, U64_MAX.s}, n : {0, 1, U64_MAX.n}]

Le(a, b) ==
  \/ a.d < b.d
  \/ a.d = b.d /\ a.s < b.s
  \/ a.d = b.d /\ a.s = b.s /\ a.n <= b.n

\* Duration::from_nanos(u64)
from_nanos(t) == [d |-> t.d, s |-> t.s, n |-> t.n]

Duration_add_u64(a, b) ==
  LET n == a.n + b.n
      s == a.s + b.s + (n \div NanosPerSec)
      sum == [d |-> a.d + b.d + (s \div SecsPerDay),
              s |-> s % SecsPerDay,
              n |-> n % NanosPerSec]
      \* sum - 2^64 ns, with 2^64 ns = U64_MAX + 1 ns
      n2 == sum.n - (U64_MAX.n + 1)
      s2 == sum.s - U64_MAX.s - (IF n2 < 0 THEN 1 ELSE 0)
      d2 == sum.d - U64_MAX.d - (IF s2 < 0 THEN 1 ELSE 0)
  IN  IF Le(sum, U64_MAX)
        THEN sum
        ELSE [d |-> d2, s |-> s2 % SecsPerDay, n |-> n2 % NanosPerSec]
\* Duration + Duration: seconds are a u64 of their own, so the sum of two
\* u64 nanosecond values always fits.
Duration_add(a, b) ==
  LET n == a.n + b.n
      s == a.s + b.s + (n \div NanosPerSec)
  IN  [d |-> a.d + b.d + (s \div SecsPerDay),
       s |-> s % SecsPerDay,
       n |-> n % NanosPerSec]

\* GeneralizedTime::from_unix_duration: fails past MAX_UNIX_DURATION, and
\* keeps whole seconds only (a DateTime is year .. second).
from_unix_duration(dur) ==
  IF Le(dur, MAX_UNIX_DURATION)
    THEN [ok |-> TRUE, time |-> [d |-> dur.d, s |-> dur.s, n |-> 0]]
    ELSE [ok |-> FALSE, time |-> NoTime]

generate_validity_info(t) ==
  LET now == from_nanos(t)
      expiry == Duration_add(now, from_nanos(ONE_YEAR_VALIDITY_NANOS))
      not_before == from_unix_duration(now)
      not_after == from_unix_duration(expiry)
  IN  IF not_before.ok /\ not_after.ok
        THEN [panic |-> FALSE,
              validity |-> [not_before |-> not_before.time,
                            not_after |-> not_after.time]]
        ELSE [panic |-> TRUE, validity |-> NoValidity]

\* build_leaf calls generate_validity_info when the clock shows t.
CallValidity(c, t) ==
  /\ CanStart(c)
  /\ op' = [op EXCEPT ![c] = "generate_validity_info"]
  /\ nowAt' = [nowAt EXCEPT ![c] = t]
  /\ LET r == generate_validity_info(t) IN
       /\ validity' = [validity EXCEPT ![c] = r.validity]
       /\ pc' = [pc EXCEPT ![c] = IF r.panic THEN "panicked" ELSE "returned"]
  /\ UNCHANGED <<issueVars, keyVars, handlerVars, signerVars>>

Next ==
  \/ \E c \in Calls, d \in Names : generate_cert(c, d)
  \/ \E c \in Calls : build_leaf(c)
  \/ \E c \in Calls, k \in Keys : CallId(c, k)
  \/ \E c \in Calls, k \in Keys : CallProfile(c, k)

Spec == Init /\ [][Next]_vars

NextHandler ==
  \/ \E c \in Requesters, r \in Requests, s \in BOOLEAN, h \in HandleResults :
       accept(c, r, s, h)
  \/ \E c \in Requesters, k \in VerifyKeys, m \in Messages, sig \in Signatures :
       CallVerify(c, k, m, sig)

SpecHandler == Init /\ [][NextHandler]_vars

NextSigner ==
  \/ \E c \in Calls : verifying_key(c)
  \/ \E c \in Calls : try_sign(c)
  \/ \E c \in Calls : spawn(c)
  \/ \E c \in Calls : take(c)
  \/ \E c \in Calls, reply \in Replies : resume(c, reply)

SpecSigner == Init /\ [][NextSigner]_vars

NextValidity == \E c \in Calls, t \in Nows : CallValidity(c, t)

SpecValidity == Init /\ [][NextValidity]_vars

(***************************************************************************)
(* Properties                                                              *)
(***************************************************************************)
Took(c) == op[c] = "generate_cert" /\ setRes[c] = "ok"

\* C1: over any sequence of generate_cert calls on one store, the serial
\* numbers assigned are pairwise distinct and strictly increasing in
\* issuance order.
C1_SerialsStrictlyIncreasing ==
  \A i, j \in DOMAIN issued : i < j => issued[i] < issued[j]

C1_Witness ==
  /\ Len(issued) >= 2
  /\ \E c, d \in Calls : c < d /\ Took(c) /\ Took(d) /\ Ended(d)

\* C2: the read and the increment of the serial-number counter are one
\* step: no two attempts observe the same serial number, and the counter
\* is already past a serial when the attempt that observed it goes on.
C2_AtomicReadIncrement ==
  \A c \in Calls : Took(c) =>
    /\ key[c].serial_number < counter
    /\ \A d \in Calls \ {c} : Took(d) =>
         key[d].serial_number # key[c].serial_number

C2_Witness ==
  \E c, d \in Calls :
    /\ c # d /\ Took(c) /\ Took(d)
    /\ pc[c] = "panicked" /\ pc[d] = "gc_build"

\* A call has asked AcmeKey::id for the derivation path of its key.
AskedId(c) == (op[c] = "id" /\ Ended(c)) \/ built[c]

\* C3: the signing identity is never reused across certificates: two
\* keys that differ in subject name or in serial number (the root's
\* included) are each given a derivation path, and the two paths differ.
C3_IdNeverReused ==
  \A c, d \in Calls :
    (AskedId(c) /\ AskedId(d) /\ key[c] # key[d]) =>
      /\ pc[c] # "panicked"
      /\ pc[d] # "panicked"
      /\ path[c] # path[d]

\* C4: a handler that does not skip JWK verification handles a request
\* only after its signed envelope has been verified: a request whose
\* envelope does not verify never reaches handle.
C4_HandleOnlyVerified ==
  \A c \in handled : ~skip[c] => req[c].jws_ok

BadRequest(r) == r.method \notin {"GET", "POST"} \/ ~r.body_ok

\* C5: a request with an unsupported method or a body that does not
\* deserialize is rejected before any state mutation: accept does not
\* call handle and leaves all persisted state unchanged.
C5_RejectBeforeMutation ==
  [][\A c \in Calls :
       (pc[c] = "idle" /\ op'[c] = "accept" /\ BadRequest(req'[c])) =>
         /\ handled' = handled
         /\ handlerWrites' = handlerWrites
         /\ counter' = counter
         /\ resp'[c].kind # "success"]_vars

C5_Witness ==
  \E c, d \in Calls :
    /\ op[c] = "accept" /\ c \in handled
    /\ op[d] = "accept" /\ d > c /\ Ended(d) /\ BadRequest(req[d])
    /\ handled = {c} /\ handlerWrites = 1

C8_WriteBeforeBuild ==
  \A c \in Calls :
    (op[c] = "generate_cert" /\ (pc[c] = "gc_build" \/ built[c])) =>
      /\ setRes[c] = "ok"
      /\ counter > key[c].serial_number

C8_Witness ==
  \E c, d \in Calls :
    /\ op[c] = "generate_cert" /\ setRes[c] = "failed"
    /\ pc[c] = "panicked" /\ ~built[c]
    /\ op[d] = "generate_cert" /\ built[d]

\* C9: profile() is Root exactly for the empty/root name, in particular
\* for Certificate::root(), and is otherwise Leaf with the root name as
\* issuer.
C9_ProfileOfRoot ==
  \A c \in Calls :
    (op[c] = "profile" /\ pc[c] = "returned") =>
      IF key[c].domain \in {<<>>, ROOT_NAME}
        THEN prof[c].kind = "Root"
        ELSE prof[c] = [kind |-> "Leaf", issuer |-> root_name]

\* C10: verify returns false, as a value, whenever the signature is not a
\* valid signature of the message under the key, ill-formed signature
\* bytes included.
C10_VerifyRejects ==
  \A c \in Calls :
    (op[c] = "verify" /\ Ended(c)
       /\ vin[c].sig # SignatureOf(vin[c].key, vin[c].msg)) =>
      (pc[c] = "returned" /\ vret[c] = "false")

Validated(c) == op[c] = "generate_validity_info" /\ Ended(c)

\* C11 (as stated): for every current time now, not_before = now and
\* not_after = now + ONE_YEAR_VALIDITY_NANOS, to the nanosecond.
C11_ValidityExact ==
  \A c \in Calls : Validated(c) =>
    /\ pc[c] = "returned"
    /\ validity[c].not_before = nowAt[c]
    /\ validity[c].not_after =
         [d |-> nowAt[c].d + ONE_YEAR_VALIDITY_NANOS.d,
          s |-> nowAt[c].s, n |-> nowAt[c].n]

\* C11 (amended): for every current time now of the 64-bit nanosecond
\* clock, not_before is now cut to whole seconds and not_after is exactly
\* 365 days later; not_before < not_after, and the sum does not overflow.
C11_ValidityWholeSeconds ==
  \A c \in Calls : Validated(c) =>
    /\ pc[c] = "returned"
    /\ validity[c].not_before = [d |-> nowAt[c].d, s |-> nowAt[c].s, n |-> 0]
    /\ validity[c].not_after =
         [d |-> nowAt[c].d + 365, s |-> nowAt[c].s, n |-> 0]
    /\ validity[c].not_before.d < validity[c].not_after.d

C11_Witness ==
  \E c, e \in Calls :
    /\ Validated(c) /\ pc[c] = "returned" /\ nowAt[c] = U64_MAX
    /\ Validated(e) /\ pc[e] = "returned" /\ nowAt[e].n = 0 /\ nowAt[e].d > 0

\* C12: every request handed to accept ends with exactly one response: a
\* success response with the handler's status code when validation and
\* handle both succeed, otherwise an error response with the status code
\* of the error (400 for an unsupported method or an undeserializable
\* body).
C12_AlwaysOneResponse ==
  \A c \in Calls : (op[c] = "accept" /\ Ended(c)) =>
    /\ pc[c] = "returned"
    /\ resp[c].kind \in {"success", "error"}
    /\ resp[c].kind = "success" => (c \in handled /\ ~BadRequest(req[c]))
    /\ BadRequest(req[c]) =>
         resp[c] = [kind |-> "error", status |-> BAD_REQUEST]

\* C13: no serial returned by _inc_serial_number to generate_cert, for a
\* counter that starts at 0, is the root certificate's ROOT_SERIAL_NUMBER.
C13_LeafSerialNotRoot ==
  \A i \in DOMAIN issued : issued[i] # root.serial_number

====
